---- MODULE Spec2Model ----
(***************************************************************************)
(* A model of recipes/cudatoolkit/build.py: the Extractor constructor, the *)
(* library path resolver get_paths, the copy/link stage copy_files, the    *)
(* Linux and Windows extract methods and main.                             *)
(*                                                                         *)
(* File names, templates and version strings are sequences of one-character*)
(* strings, so that str.split, str.format, fnmatch and Python's string     *)
(* ordering are computed rather than assumed.                              *)
(***************************************************************************)
EXTENDS Integers, Sequences, FiniteSets, TLC

VARIABLES
    \* ---- Extractor.__init__ (SpecInit) ----
    version,      \* the version string handed to the constructor
    platform,     \* the platform string handed to the constructor
    ctor,         \* outcome of the constructor call
    \* ---- Extractor.get_paths (SpecPaths) ----
    libraries,    \* argument: list of library names
    listing,      \* os.listdir(dirpath) with the kind of every entry
    template,     \* argument: the file-name template
    symlinks,     \* self.symlinks
    result,       \* outcome of the get_paths call
    \* ---- a run of main on a constructed extractor (Spec) ----
    plat,         \* "linux" (LinuxExtractor) or "windows" (WindowsExtractor)
    patches,      \* self.patches
    embedded,     \* self.embedded_blob ("none" for None)
    nvt,          \* the NvToolsExt install path: "unset", "notdir" or its walk
    tree,         \* what the installer / archive unpacks to
    out,          \* self.output_dir: name -> entry
    pc,           \* position of the run
    calls,        \* the check_call invocations so far
    err,          \* the exception main ended with ("none" while there is none)
    store,        \* the flat staging directory DLLs (windows): name -> bytes
    widx,         \* next directory of the walk in progress
    filepaths,    \* the list copy_files resolved
    idx,          \* next element of filepaths to copy or link
    config        \* cudatoolkit_config.yaml has been written

pathVars == <<libraries, listing, template, symlinks, result>>
ctorVars == <<version, platform, ctor>>
runVars == <<plat, patches, embedded, nvt, tree, out, pc, calls, err, store,
             widx, filepaths, idx, config>>

----------------------------------------------------------------------------
(* Strings *)

\* ord(c) for the characters the model's names are written with.
Ord(c) ==
    CASE c = "-" -> 45 [] c = "." -> 46
      [] c = "0" -> 48 [] c = "1" -> 49 [] c = "2" -> 50 [] c = "3" -> 51
      [] c = "4" -> 52 [] c = "5" -> 53 [] c = "6" -> 54 [] c = "7" -> 55
      [] c = "8" -> 56 [] c = "9" -> 57 [] c = "_" -> 95
      [] c = "a" -> 97 [] c = "b" -> 98 [] c = "c" -> 99 [] c = "d" -> 100
      [] c = "e" -> 101 [] c = "f" -> 102 [] c = "i" -> 105 [] c = "l" -> 108
      [] c = "m" -> 109 [] c = "n" -> 110 [] c = "o" -> 111 [] c = "r" -> 114
      [] c = "s" -> 115 [] c = "t" -> 116 [] c = "u" -> 117 [] c = "v" -> 118
      [] c = "x" -> 120 [] c = "E" -> 69 [] c = "T" -> 84

\* Python's str "<": code point by code point, a proper prefix is smaller.
RECURSIVE StrLess(_, _)
StrLess(a, b) ==
    IF a = <<>> THEN b # <<>>
    ELSE IF b = <<>> THEN FALSE
    ELSE IF Head(a) = Head(b) THEN StrLess(Tail(a), Tail(b))
    ELSE Ord(Head(a)) < Ord(Head(b))

\* str(n) for a natural number n.
RECURSIVE Decimal(_)
Decimal(n) ==
    LET d == <<"0", "1", "2", "3", "4", "5", "6", "7", "8", "9">>[(n % 10) + 1]
    IN  IF n < 10 THEN <<d>> ELSE Decimal(n \div 10) \o <<d>>

\* template.format(libname): every "{0}" field is replaced by libname.
RECURSIVE Format(_, _)
Format(tmpl, libname) ==
    IF tmpl = <<>> THEN <<>>
    ELSE IF Head(tmpl) = "{0}" THEN libname \o Format(Tail(tmpl), libname)
    ELSE <<Head(tmpl)>> \o Format(Tail(tmpl), libname)

\* fnmatch.fnmatch(name, pat) for patterns of literals, "*" and "?".
\* (os.path.normcase is the identity on the lower-case names used here.)
RECURSIVE FnMatch(_, _)
FnMatch(name, pat) ==
    IF pat = <<>> THEN name = <<>>
    ELSE IF Head(pat) = "*"
         THEN FnMatch(name, Tail(pat))
              \/ (name # <<>> /\ FnMatch(Tail(name), pat))
    ELSE IF Head(pat) = "?"
         THEN name # <<>> /\ FnMatch(Tail(name), Tail(pat))
    ELSE name # <<>> /\ Head(name) = Head(pat)
         /\ FnMatch(Tail(name), Tail(pat))

\* fnmatch.filter(names, pat): the matching names, in the order given.
FnFilter(names, pat) == SelectSeq(names, LAMBDA n : FnMatch(n, pat))

Range(s) == {s[i] : i \in DOMAIN s}

----------------------------------------------------------------------------
(* Extractor.__init__ *)

\* version.split('.')
RECURSIVE SplitFrom(_, _, _)
SplitFrom(s, part, parts) ==
    IF s = <<>> THEN Append(parts, part)
    ELSE IF Head(s) = "." THEN SplitFrom(Tail(s), <<>>, Append(parts, part))
    ELSE SplitFrom(Tail(s), Append(part, Head(s)), parts)

Split(s) == SplitFrom(s, <<>>, <<>>)

\* The test the constructor applies to the split version (lines 135-140).
AcceptedCount(version_parts) == Len(version_parts) >= 2

\* The name ver_config, read on line 156, is bound nowhere in the module:
\* it is neither a parameter of Extractor.__init__ nor a global.
VerConfigBound == FALSE

\* Extractor.__init__(platform, version_string): the outcome of the call.
\* makedirs tells whether os.makedirs(self.output_dir) (line 164) was reached.
ExtractorInit(plt, version_string) ==
    LET version_parts == Split(version_string)
        none == <<>>
    IN  IF ~AcceptedCount(version_parts)
        THEN [done |-> TRUE, err |-> "ValueError", makedirs |-> FALSE,
              major |-> none, minor |-> none, symlinks |-> FALSE]
        ELSE IF ~VerConfigBound
        THEN [done |-> TRUE, err |-> "NameError", makedirs |-> FALSE,
              major |-> version_parts[1], minor |-> version_parts[2],
              symlinks |-> FALSE]
        ELSE [done |-> TRUE, err |-> "none", makedirs |-> TRUE,
              major |-> version_parts[1], minor |-> version_parts[2],
              symlinks |-> (plt = "linux")]

----------------------------------------------------------------------------
(* Extractor.get_paths *)

\* A directory is the sequence os.listdir returns (its order is the file
\* system's), each entry with its kind: "file" a regular file, "link" a
\* symbolic link that leads to a regular file, "dangling" a symbolic link
\* that does not, "dir" a directory.
ListDir(entries) == [i \in DOMAIN entries |-> entries[i].name]

KindOf(entries, name) ==
    (CHOOSE e \in Range(entries) : e.name = name).kind

\* os.path.isfile follows links; os.path.islink does not.
IsFile(entries, name) == KindOf(entries, name) \in {"file", "link"}
IsLink(entries, name) == KindOf(entries, name) \in {"link", "dangling"}

\* os.path.join(dirpath, path)
Join(dirpath, name) == [dir |-> dirpath, name |-> name]

Raise(kind, libname, filename) ==
    [err |-> kind, item |-> libname, pattern |-> filename, paths |-> <<>>]

Return(paths) ==
    [err |-> "none", item |-> <<>>, pattern |-> <<>>, paths |-> paths]

\* (A faulty variant: the test for an empty match list is left out.)
NoMatchNever(paths) == FALSE

\* "if not paths" (line 185)
NoMatch(paths) == paths = <<>>

\* (A faulty variant: aliasing is refused whether or not symlinks are on.)
AliasingAnyMode(sym, paths) == Len(paths) # 1

\* "if (not self.symlinks) and (len(paths) != 1)" (line 189)
Aliasing(sym, paths) == (~sym) /\ Len(paths) # 1

\* max(concrete_dsos) (line 205): the first greatest element under str "<".
\* All paths of one call share dirpath, so the names decide the order.
RECURSIVE MaxFrom(_, _)
MaxFrom(best, rest) ==
    IF rest = <<>> THEN best
    ELSE IF StrLess(best, Head(rest)) THEN MaxFrom(Head(rest), Tail(rest))
    ELSE MaxFrom(best, Tail(rest))

RECURSIVE MinFrom(_, _)
MinFrom(best, rest) ==
    IF rest = <<>> THEN best
    ELSE IF StrLess(Head(rest), best) THEN MinFrom(Head(rest), Tail(rest))
    ELSE MinFrom(best, Tail(rest))

\* (A faulty variant: the least name is kept instead of the greatest.)
TargetLibraryMin(concrete_dsos) == MinFrom(Head(concrete_dsos), Tail(concrete_dsos))

TargetLibrary(concrete_dsos) == MaxFrom(Head(concrete_dsos), Tail(concrete_dsos))

\* The body of "for libname in libraries" (lines 183-211) for one name.
PathsForLib(sym, libname, dirpath, entries, tmpl) ==
    LET filename == Format(tmpl, libname)
        paths == FnFilter(ListDir(entries), filename)
    IN  IF NoMatch(paths) THEN Raise("NotFound", libname, filename)
        ELSE IF Aliasing(sym, paths) THEN Raise("Aliasing", libname, filename)
        ELSE IF \E i \in DOMAIN paths : ~IsFile(entries, paths[i])
             THEN Raise("AssertionError", libname, filename)
        ELSE IF sym
             THEN LET concrete_dsos ==
                          SelectSeq(paths, LAMBDA x : ~IsLink(entries, x))
                  IN  IF concrete_dsos = <<>>
                      THEN \* max() of an empty sequence
                           Raise("ValueError", libname, filename)
                      ELSE LET target_library == TargetLibrary(concrete_dsos)
                               unwanted == Range(concrete_dsos) \ {target_library}
                               pathsforlib ==
                                   SelectSeq(paths, LAMBDA x : x \notin unwanted)
                           IN  Return([i \in DOMAIN pathsforlib |->
                                          Join(dirpath, pathsforlib[i])])
        ELSE Return([i \in DOMAIN paths |-> Join(dirpath, paths[i])])

\* get_paths: the names in order; the first error ends the call.
RECURSIVE GetPathsFrom(_, _, _, _, _, _)
GetPathsFrom(sym, libs, dirpath, entries, tmpl, pathlist) ==
    IF libs = <<>> THEN Return(pathlist)
    ELSE LET r == PathsForLib(sym, Head(libs), dirpath, entries, tmpl)
         IN  IF r.err # "none" THEN r
             ELSE GetPathsFrom(sym, Tail(libs), dirpath, entries, tmpl,
                               pathlist \o r.paths)

get_paths(sym, libs, dirpath, entries, tmpl) ==
    GetPathsFrom(sym, libs, dirpath, entries, tmpl, <<>>)

----------------------------------------------------------------------------
(* The inputs get_paths is applied to *)

MaxEntries == 3

foo == <<"f", "o", "o">>
bar == <<"b", "a", "r">>

\* "lib<name>.so" followed by ".<n>" for every component of ver
RECURSIVE DotSuffix(_)
DotSuffix(ver) ==
    IF ver = <<>> THEN <<>>
    ELSE <<".">> \o Decimal(Head(ver)) \o DotSuffix(Tail(ver))

SoName(libname, ver) ==
    <<"l", "i", "b">> \o libname \o <<".", "s", "o">> \o DotSuffix(ver)

\* "<name>64_1<n>.dll"
DllName(libname, n) ==
    libname \o <<"6", "4", "_", "1">> \o Decimal(n) \o <<".", "d", "l", "l">>

FooVersions == {<<1>>, <<2>>, <<3>>, <<11, 2>>, <<11, 10>>}
BarVersions == {<<1>>}
VersionsOf(libname) == IF libname = foo THEN FooVersions ELSE BarVersions

\* CONFIG['linux']['cuda_lib_fmt'], CONFIG['linux']['nvvm_lib_fmt']
LinuxLibFmt == <<"l", "i", "b", "{0}", ".", "s", "o", "*">>
\* CONFIG['windows']['cuda_lib_fmt']
WindowsLibFmt == <<"{0}", "6", "4", "_", "1", "*", ".", "d", "l", "l">>

LinuxNames ==
    {SoName(foo, v) : v \in FooVersions} \cup {SoName(bar, v) : v \in BarVersions}
WindowsNames == {DllName(foo, 0), DllName(foo, 1), DllName(bar, 0)}

\* ("dangling" is left to the runs below: get_paths rejects it as it does "dir".)
Kinds == {"file", "link", "dir"}

\* The listings of at most MaxEntries entries with distinct names.
Listings(names) ==
    {s \in UNION {[1..k -> [name : names, kind : Kinds]] : k \in 0..MaxEntries} :
        \A i, j \in DOMAIN s : i # j => s[i].name # s[j].name}

LibraryLists == {<<foo>>, <<foo, bar>>, <<bar, foo>>}

Pending == [err |-> "pending", item |-> <<>>, pattern |-> <<>>, paths |-> <<>>]

LibDir == <<"l", "i", "b", "6", "4">>

NoCtor == [done |-> FALSE]

EmptyDir == [n \in {} |-> n]

NoTree == [lib64 |-> <<>>, nvvm |-> <<>>, libdevice |-> <<>>, walk |-> <<>>]

\* No run of main is modelled.
RunIdle ==
    /\ plat = "linux" /\ patches = <<>> /\ embedded = "none" /\ nvt = "unset"
    /\ tree = NoTree /\ out = EmptyDir /\ pc = "idle" /\ calls = <<>>
    /\ err = "none" /\ store = EmptyDir /\ widx = 0 /\ filepaths = <<>>
    /\ idx = 0 /\ config = FALSE

InitPaths ==
    /\ libraries \in LibraryLists
    /\ template \in {LinuxLibFmt, WindowsLibFmt}
    /\ listing \in Listings(IF template = LinuxLibFmt THEN LinuxNames
                            ELSE WindowsNames)
    /\ symlinks \in BOOLEAN
    /\ result = Pending
    /\ version = <<>> /\ platform = "linux" /\ ctor = NoCtor
    /\ RunIdle

GetPathsCall ==
    /\ result = Pending
    /\ result' = get_paths(symlinks, libraries, LibDir, listing, template)
    /\ UNCHANGED <<libraries, listing, template, symlinks>>
    /\ UNCHANGED <<ctorVars, runVars>>

vars == <<ctorVars, pathVars, runVars>>

NextPaths == GetPathsCall

SpecPaths == InitPaths /\ [][NextPaths]_vars

----------------------------------------------------------------------------
(* The inputs the constructor is applied to *)

MaxVersionLen == 5

VersionChars == {"1", "a", "."}

Versions == UNION {[1..k -> VersionChars] : k \in 0..MaxVersionLen}

InitCtor ==
    /\ version \in Versions
    /\ platform \in {"linux", "windows"}
    /\ ctor = NoCtor
    /\ libraries = <<>> /\ listing = <<>> /\ template = <<>>
    /\ symlinks = FALSE /\ result = Pending
    /\ RunIdle

Construct ==
    /\ ~ctor.done
    /\ ctor' = ExtractorInit(platform, version)
    /\ UNCHANGED <<version, platform>>
    /\ UNCHANGED <<pathVars, runVars>>

NextCtor == Construct

SpecInit == InitCtor /\ [][NextCtor]_vars

\* A version string of 2 or 3 components, each a non-empty run of digits.
IsNumeric(part) == part # <<>> /\ \A i \in DOMAIN part : part[i] = "1"
WellFormedVersion(v) ==
    /\ Len(Split(v)) \in {2, 3}
    /\ \A i \in DOMAIN Split(v) : IsNumeric(Split(v)[i])

\* C1 (as claimed): a version string that is not 2 or 3 numeric components
\* makes the constructor fail with the invalid-version error (the ValueError
\* of line 140) before the output directory is created.
C1_InvalidVersionFailsFast ==
    (ctor.done /\ ~WellFormedVersion(version)) =>
        (ctor.err = "ValueError" /\ ~ctor.makedirs)

----------------------------------------------------------------------------
(* Properties of get_paths *)

Returned == result.err = "none"
Failed == result.err \notin {"none", "pending"}

Pattern(libname) == Format(template, libname)

\* The directory entries whose name matches the expanded template of libname.
Matches(libname) == {e \in Range(listing) : FnMatch(e.name, Pattern(libname))}
ConcreteMatches(libname) == {e \in Matches(libname) : e.kind = "file"}
LinkMatches(libname) == {e \in Matches(libname) : e.kind = "link"}

\* The names of the returned paths that belong to libname.
ReturnedFor(libname) ==
    {p.name : p \in {q \in Range(result.paths) : FnMatch(q.name, Pattern(libname))}}

\* The loop of get_paths gets past libname without raising.
Resolves(libname) ==
    /\ Matches(libname) # {}
    /\ \A e \in Matches(libname) : e.kind \in {"file", "link"}
    /\ IF symlinks THEN ConcreteMatches(libname) # {}
       ELSE Cardinality(Matches(libname)) = 1

\* The loop of get_paths reaches the i-th name.
Reached(i) == \A j \in 1..(i - 1) : Resolves(libraries[j])

\* C2: in alias-tolerant mode the paths returned for a library name are
\* exactly the lexicographically greatest non-symlink match and every symlink
\* match, each joined with the directory and returned once.
C2_AliasResult ==
    (Returned /\ symlinks) =>
        /\ \A i \in DOMAIN libraries :
              LET lib == libraries[i]
                  greatest == {e \in ConcreteMatches(lib) :
                                  \A o \in ConcreteMatches(lib) :
                                      o = e \/ StrLess(o.name, e.name)}
              IN  /\ Cardinality(greatest) = 1
                  /\ ReturnedFor(lib) =
                         {e.name : e \in greatest \cup LinkMatches(lib)}
        /\ \A p \in Range(result.paths) : p.dir = LibDir
        /\ Cardinality(Range(result.paths)) = Len(result.paths)

\* The example of the claim: {libfoo.so.1, libfoo.so.2 -> libfoo.so.1,
\* libfoo.so.3} resolves to {libfoo.so.3, libfoo.so.2}.
C2_Witness ==
    /\ Returned /\ symlinks /\ libraries = <<foo>>
    /\ Range(listing) = {[name |-> SoName(foo, <<1>>), kind |-> "file"],
                         [name |-> SoName(foo, <<2>>), kind |-> "link"],
                         [name |-> SoName(foo, <<3>>), kind |-> "file"]}
    /\ ReturnedFor(foo) = {SoName(foo, <<3>>), SoName(foo, <<2>>)}

\* C3 (as claimed): a name with exactly one matching entry, a regular file or
\* a symbolic link to one, resolves in either mode and contributes exactly
\* that path.
C3_SingleMatchResolves ==
    \A i \in DOMAIN libraries :
        LET lib == libraries[i] IN
        (/\ result # Pending
         /\ Reached(i)
         /\ Cardinality(Matches(lib)) = 1
         /\ \A e \in Matches(lib) : e.kind \in {"file", "link"})
        => /\ ~(Failed /\ result.item = lib)
           /\ Returned => ReturnedFor(lib) = {e.name : e \in Matches(lib)}

\* C4: a name without any matching entry makes get_paths raise and return no
\* path list, in either mode; when every earlier name of the list resolved,
\* the error is the not-found error with that name and its pattern.
C4_NotFound ==
    \A i \in DOMAIN libraries :
        (result # Pending /\ Matches(libraries[i]) = {}) =>
            /\ Failed /\ result.paths = <<>>
            /\ Reached(i) =>
                  /\ result.err = "NotFound"
                  /\ result.item = libraries[i]
                  /\ result.pattern = Pattern(libraries[i])

C4_Witness ==
    /\ symlinks /\ libraries = <<bar, foo>>
    /\ Resolves(bar) /\ Matches(foo) = {}
    /\ result.err = "NotFound" /\ result.item = foo

\* C5: with symlinks disabled, a name with two or more matching entries makes
\* get_paths raise the aliasing (ambiguous match) error for that name once the
\* loop reaches it; with symlinks enabled no aliasing error is ever raised and
\* several matching files resolve.
C5_Ambiguous ==
    \A i \in DOMAIN libraries :
        LET lib == libraries[i] IN
        (result # Pending /\ Cardinality(Matches(lib)) >= 2) =>
            /\ ~symlinks => Failed
            /\ (~symlinks /\ Reached(i)) =>
                  (result.err = "Aliasing" /\ result.item = lib)
            /\ symlinks => result.err # "Aliasing"
            /\ (symlinks /\ Reached(i) /\ Resolves(lib)) =>
                  ~(Failed /\ result.item = lib)

C5_Witness ==
    /\ ~symlinks /\ libraries = <<bar, foo>>
    /\ Resolves(bar) /\ Cardinality(Matches(foo)) = 2
    /\ result.err = "Aliasing" /\ result.item = foo

\* Dotted numeric versions compare component by component, as numbers.
RECURSIVE VersionLess(_, _)
VersionLess(u, v) ==
    IF u = <<>> THEN v # <<>>
    ELSE IF v = <<>> THEN FALSE
    ELSE IF Head(u) = Head(v) THEN VersionLess(Tail(u), Tail(v))
    ELSE Head(u) < Head(v)

\* The version a library file name carries.
VersionOfName(libname, name) ==
    CHOOSE v \in VersionsOf(libname) : SoName(libname, v) = name

\* C10 (as claimed): the non-symlink file kept for a library name is the one
\* with the highest version, components compared as numbers.
C10_HighestVersion ==
    (Returned /\ symlinks /\ template = LinuxLibFmt) =>
        \A i \in DOMAIN libraries :
            LET lib == libraries[i]
                kept == {e \in ConcreteMatches(lib) : e.name \in ReturnedFor(lib)}
            IN  \A k \in kept : \A o \in ConcreteMatches(lib) :
                    ~VersionLess(VersionOfName(lib, k.name),
                                 VersionOfName(lib, o.name))

----------------------------------------------------------------------------
(* CONFIG, reduced to one ordinary library next to nvToolsExt *)

nvToolsExt == <<"n", "v", "T", "o", "o", "l", "s", "E", "x", "t">>
nvvm == <<"n", "v", "v", "m">>
cudadevrt == <<"c", "u", "d", "a", "d", "e", "v", "r", "t">>

\* CONFIG['cuda_libraries'], CONFIG['cuda_static_libraries']
cuda_libraries == <<foo, nvToolsExt>>
cuda_static_libraries == <<cudadevrt>>
\* self.libdevice_versions = [self.major]
libdevice_versions == <<<<"1", "1">>>>

LibdeviceName == <<"l", "i", "b", "d", "e", "v", "i", "c", "e", ".", "1", "0",
                   ".", "b", "c">>

\* The file-name templates of CONFIG['linux'] and CONFIG['windows'].
Fmt(p) ==
    IF p = "linux"
    THEN [cuda_lib_fmt |-> LinuxLibFmt,
          cuda_static_lib_fmt |-> <<"l", "i", "b", "{0}", ".", "a">>,
          nvtoolsext_fmt |-> LinuxLibFmt,
          nvvm_lib_fmt |-> LinuxLibFmt,
          libdevice_lib_fmt |-> LibdeviceName]
    ELSE [cuda_lib_fmt |-> WindowsLibFmt,
          cuda_static_lib_fmt |-> <<"{0}", ".", "l", "i", "b">>,
          nvtoolsext_fmt |-> <<"{0}", "6", "4", "_", "1", ".", "d", "l", "l">>,
          nvvm_lib_fmt |-> <<"{0}", "6", "4", "_", "3", "3", "_", "0", ".",
                             "d", "l", "l">>,
          libdevice_lib_fmt |-> LibdeviceName]

\* self.symlinks = (platform == 'linux')
Symlinks(p) == p = "linux"

----------------------------------------------------------------------------
(* Extractor.copy_files *)

\* The five get_paths calls of copy_files (lines 217-229); the first error
\* ends the method.
ResolveAll(p, cuda_lib_dir, cuda_entries, nvvm_lib_dir, nvvm_entries, libdevice_lib_dir, libdevice_entries) ==
    LET sym == Symlinks(p)
        cudalibs == SelectSeq(cuda_libraries, LAMBDA x : x # nvToolsExt)
        r1 == get_paths(sym, cudalibs, cuda_lib_dir, cuda_entries,
                        Fmt(p).cuda_lib_fmt)
        r2 == IF nvToolsExt \in Range(cuda_libraries)
              THEN get_paths(sym, <<nvToolsExt>>, cuda_lib_dir, cuda_entries,
                             Fmt(p).nvtoolsext_fmt)
              ELSE Return(<<>>)
        r3 == get_paths(sym, cuda_static_libraries, cuda_lib_dir, cuda_entries,
                        Fmt(p).cuda_static_lib_fmt)
        r4 == get_paths(sym, <<nvvm>>, nvvm_lib_dir, nvvm_entries,
                        Fmt(p).nvvm_lib_fmt)
        r5 == get_paths(sym, libdevice_versions, libdevice_lib_dir,
                        libdevice_entries, Fmt(p).libdevice_lib_fmt)
    IN  IF r1.err # "none" THEN r1
        ELSE IF r2.err # "none" THEN r2
        ELSE IF r3.err # "none" THEN r3
        ELSE IF r4.err # "none" THEN r4
        ELSE IF r5.err # "none" THEN r5
        ELSE Return(r1.paths \o r2.paths \o r3.paths \o r4.paths \o r5.paths)

\* An entry of the output directory.
FileEntry(bytes) == [kind |-> "file", bytes |-> bytes, target |-> <<>>]
LinkEntry(target) ==
    [kind |-> "link", bytes |-> [dir |-> <<>>, name |-> <<>>], target |-> target]

\* os.symlink(symlinktarget, symlink) fails when the name exists (line 238).
SymlinkExists(o, targetname) == targetname \in DOMAIN o

Symlinked(o, symlinktarget, targetname) ==
    [x \in DOMAIN o \cup {targetname} |->
        IF x = targetname THEN LinkEntry(symlinktarget) ELSE o[x]]

\* The file that opening <output_dir>/<name> for writing writes to: open()
\* follows symbolic links.  <<>> stands for a loop of links.
RECURSIVE WrittenName(_, _, _)
WrittenName(o, name, seen) ==
    IF name \in DOMAIN o /\ o[name].kind = "link"
    THEN IF name \in seen THEN <<>>
         ELSE WrittenName(o, o[name].target, seen \cup {name})
    ELSE name

\* shutil.copy(fn, self.output_dir) (line 241)
Copied(o, bytes, name) ==
    LET w == WrittenName(o, name, {})
    IN  [x \in DOMAIN o \cup {w} |-> IF x = w THEN FileEntry(bytes) ELSE o[x]]

----------------------------------------------------------------------------
(* The Windows staging directory *)

Contains(str, sub) ==
    \E i \in 1..(Len(str) - Len(sub) + 1) :
        SubSeq(str, i, i + Len(sub) - 1) = sub

\* "if 'jre' not in path and 'GFExperience' not in path" (line 290)
Walked(path) ==
    /\ ~Contains(path, <<"j", "r", "e">>)
    /\ ~Contains(path, <<"G", "F", "E", "x", "p", "e", "r", "i", "e", "n",
                         "c", "e">>)

\* (A faulty variant: a staged file is overwritten by a later one.)
ToStageAlways(st, filename) == TRUE

\* "if not Path(os.path.join(store, filename)).is_file()" (lines 292, 298,
\* 304, 312)
ToStage(st, filename) == filename \notin DOMAIN st

HasExt(filename, ext) == FnMatch(filename, <<"*", ".">> \o ext)

\* The shutil.copy calls of one directory of a walk, for the given
\* extensions.  The bytes of a staged file are named by where they came from.
StageDir(st, d, exts) ==
    LET new == {f \in d.files :
                   /\ \E e \in exts : HasExt(f, e)
                   /\ ToStage(st, f)}
    IN  [x \in DOMAIN st \cup new |->
            IF x \in new THEN [dir |-> d.path, name |-> x] ELSE st[x]]

TreeExts == {<<"d", "l", "l">>, <<"l", "i", "b">>, <<"b", "c">>}
NvtExts == {<<"d", "l", "l">>}

RECURSIVE SeqOf(_)
SeqOf(S) ==
    IF S = {} THEN <<>>
    ELSE LET x == CHOOSE y \in S : TRUE IN <<x>> \o SeqOf(S \ {x})

\* os.listdir(store): the staged files, all regular files.
StoreEntries(st) ==
    LET names == SeqOf(DOMAIN st)
    IN  [i \in DOMAIN names |-> [name |-> names[i], kind |-> "file"]]

StoreDir == <<"D", "L", "L", "s">>

----------------------------------------------------------------------------
(* A run of main: extractor.extract(), then extractor.dump_config() *)

Lib64Dir == LibDir
NvvmDir == <<"n", "v", "v", "m", "/", "l", "i", "b", "6", "4">>
LibdeviceDir == <<"n", "v", "v", "m", "/", "l", "i", "b", "d", "e", "v", "i",
                  "c", "e">>

\* self.config_blob
Blob == "blob"

Call(tool, file, outcome) == [tool |-> tool, file |-> file, outcome |-> outcome]

\* What a file-system call and what check_call may end with.
FileOutcomes == {"ok", "PermissionError", "OSError"}
CallOutcomes == {"ok", "CalledProcessError", "PermissionError"}

\* "except PermissionError: pass" around the body of WindowsExtractor.extract
\* (lines 265, 318-322); LinuxExtractor.extract catches nothing.
Swallowed(p, e) == p = "windows" /\ e = "PermissionError"

\* Exception e is raised inside extract().
Raises(e) ==
    IF Swallowed(plat, e)
    THEN pc' = "dump" /\ err' = err
    ELSE pc' = "failed" /\ err' = e

IsPatchCall(c) == c.tool \in {"patch", "7za x -aoa"}
PatchesRun == Len(SelectSeq(calls, IsPatchCall))

\* (A faulty variant: the patches are taken from the end of the list.)
PatchAtReversed(ps, i) == ps[Len(ps) + 1 - i]

\* "for p in patches" (lines 273, 373): the i-th patch to apply.
PatchAt(ps, i) == ps[i]

\* Where extract() continues once n patches have been applied.
AfterPatches(n) ==
    IF n < Len(patches) THEN "patch"
    ELSE IF plat = "linux" THEN "resolve" ELSE "prepare"

\* LinuxExtractor.extract, lines 348-372: chmod of the run file, then the
\* installer (or, with an embedded blob, its extraction).
LinuxRunBlob ==
    /\ pc = "extract" /\ plat = "linux"
    /\ \E ch \in FileOutcomes :
          IF ch # "ok" THEN Raises(ch) /\ UNCHANGED calls
          ELSE \E o \in CallOutcomes :
                  /\ calls' = Append(calls,
                        Call(IF embedded = "none" THEN "install" ELSE "extract",
                             Blob, o))
                  /\ IF o # "ok" THEN Raises(o)
                     ELSE /\ pc' = IF embedded = "none" THEN AfterPatches(0)
                                   ELSE "embedded"
                          /\ err' = err
    /\ UNCHANGED <<plat, patches, embedded, nvt, tree, out, store, widx,
                   filepaths, idx, config>>
    /\ UNCHANGED <<ctorVars, pathVars>>

\* lines 357-360: the embedded blob installs into the temporary directory.
LinuxRunEmbedded ==
    /\ pc = "embedded"
    /\ \E o \in CallOutcomes :
          /\ calls' = Append(calls, Call("embedded", embedded, o))
          /\ IF o # "ok" THEN Raises(o)
             ELSE pc' = AfterPatches(0) /\ err' = err
    /\ UNCHANGED <<plat, patches, embedded, nvt, tree, out, store, widx,
                   filepaths, idx, config>>
    /\ UNCHANGED <<ctorVars, pathVars>>

\* WindowsExtractor.extract, lines 266-272: the temporary directory,
\* os.mkdir, then 7za x on the installer.
WindowsUnpack ==
    /\ pc = "extract" /\ plat = "windows"
    /\ \E mk \in FileOutcomes :
          IF mk # "ok" THEN Raises(mk) /\ UNCHANGED calls
          ELSE \E o \in CallOutcomes :
                  /\ calls' = Append(calls, Call("7za x", Blob, o))
                  /\ IF o # "ok" THEN Raises(o)
                     ELSE pc' = AfterPatches(0) /\ err' = err
    /\ UNCHANGED <<plat, patches, embedded, nvt, tree, out, store, widx,
                   filepaths, idx, config>>
    /\ UNCHANGED <<ctorVars, pathVars>>

\* One turn of "for p in patches": lines 373-377 (chmod, then the patch
\* installer) and lines 273-275 (7za x -aoa).
RunPatch ==
    /\ pc = "patch"
    /\ LET p == PatchAt(patches, PatchesRun + 1) IN
       \E ch \in (IF plat = "linux" THEN FileOutcomes ELSE {"ok"}) :
          IF ch # "ok" THEN Raises(ch) /\ UNCHANGED calls
          ELSE \E o \in CallOutcomes :
                  /\ calls' = Append(calls,
                        Call(IF plat = "linux" THEN "patch" ELSE "7za x -aoa",
                             p, o))
                  /\ IF o # "ok" THEN Raises(o)
                     ELSE pc' = AfterPatches(PatchesRun + 1) /\ err' = err
    /\ UNCHANGED <<plat, patches, embedded, nvt, tree, out, store, widx,
                   filepaths, idx, config>>
    /\ UNCHANGED <<ctorVars, pathVars>>

\* lines 277-288: the NvToolsExt path must be a directory when it is set;
\* then the staging directory is made.
WindowsPrepare ==
    /\ pc = "prepare"
    /\ IF nvt.state = "notdir"
       THEN Raises("ValueError") /\ UNCHANGED <<store, widx>>
       ELSE \E mk \in FileOutcomes :
               IF mk # "ok" THEN Raises(mk) /\ UNCHANGED <<store, widx>>
               ELSE /\ pc' = "flatten" /\ err' = err
                    /\ store' = EmptyDir /\ widx' = 1
    /\ UNCHANGED <<plat, patches, embedded, nvt, tree, out, calls, filepaths,
                   idx, config>>
    /\ UNCHANGED <<ctorVars, pathVars>>

\* lines 289-308: one directory of os.walk(extractdir).
WindowsFlattenDir ==
    /\ pc = "flatten"
    /\ LET d == tree.walk[widx] IN
       \E o \in FileOutcomes :
          IF o # "ok" THEN Raises(o) /\ UNCHANGED <<store, widx>>
          ELSE /\ store' = IF Walked(d.path) THEN StageDir(store, d, TreeExts)
                           ELSE store
               /\ err' = err
               /\ IF widx < Len(tree.walk)
                  THEN pc' = "flatten" /\ widx' = widx + 1
                  ELSE /\ pc' = IF nvt.state = "dir" THEN "merge" ELSE "resolve"
                       /\ widx' = 1
    /\ UNCHANGED <<plat, patches, embedded, nvt, tree, out, calls, filepaths,
                   idx, config>>
    /\ UNCHANGED <<ctorVars, pathVars>>

\* lines 309-316: one directory of os.walk(nvt_path).
WindowsMergeDir ==
    /\ pc = "merge"
    /\ LET d == nvt.walk[widx] IN
       \E o \in FileOutcomes :
          IF o # "ok" THEN Raises(o) /\ UNCHANGED <<store, widx>>
          ELSE /\ store' = StageDir(store, d, NvtExts)
               /\ err' = err
               /\ IF widx < Len(nvt.walk)
                  THEN pc' = "merge" /\ widx' = widx + 1
                  ELSE pc' = "resolve" /\ widx' = 1
    /\ UNCHANGED <<plat, patches, embedded, nvt, tree, out, calls, filepaths,
                   idx, config>>
    /\ UNCHANGED <<ctorVars, pathVars>>

\* The kind get_paths sees for every entry of an unpacked directory: a link
\* leads to a regular file when following it (within the directory) does.
RECURSIVE LeadsToFile(_, _, _)
LeadsToFile(entries, name, seen) ==
    /\ name \notin seen
    /\ \E e \in Range(entries) :
          /\ e.name = name
          /\ \/ e.kind = "file"
             \/ e.kind = "link" /\ LeadsToFile(entries, e.target, seen \cup {name})

Seen(entries) ==
    [i \in DOMAIN entries |->
        [name |-> entries[i].name,
         kind |-> IF entries[i].kind # "link" THEN entries[i].kind
                  ELSE IF LeadsToFile(entries, entries[i].name, {}) THEN "link"
                  ELSE "dangling",
         target |-> entries[i].target]]

\* self.copy(...) up to the end of the get_paths calls: lines 339-345 and
\* 255-260, then copy_files lines 217-229.
Resolve ==
    /\ pc = "resolve"
    /\ LET r == IF plat = "linux"
                THEN ResolveAll(plat, Lib64Dir, Seen(tree.lib64),
                                NvvmDir, Seen(tree.nvvm),
                                LibdeviceDir, Seen(tree.libdevice))
                ELSE ResolveAll(plat, StoreDir, StoreEntries(store),
                                StoreDir, StoreEntries(store),
                                StoreDir, StoreEntries(store))
       IN  IF r.err # "none"
           THEN Raises(r.err) /\ UNCHANGED <<filepaths, idx>>
           ELSE /\ filepaths' = r.paths /\ idx' = 1
                /\ pc' = "copy" /\ err' = err
    /\ UNCHANGED <<plat, patches, embedded, nvt, tree, out, calls, store, widx,
                   config>>
    /\ UNCHANGED <<ctorVars, pathVars>>

\* The entry of the unpacked tree a resolved path names.
SourceEntry(fn) ==
    IF fn.dir = StoreDir
    THEN [name |-> fn.name, kind |-> "file", target |-> <<>>]
    ELSE LET entries == IF fn.dir = Lib64Dir THEN tree.lib64
                        ELSE IF fn.dir = NvvmDir THEN tree.nvvm
                        ELSE tree.libdevice
         IN  CHOOSE e \in Range(entries) : e.name = fn.name

\* The bytes of the file a resolved path names.
BytesAt(fn) == IF fn.dir = StoreDir THEN store[fn.name] ELSE fn

\* One turn of "for fn in filepaths" (lines 231-241); after the last one
\* extract() leaves its "with tempdir()" block.
CopyOne ==
    /\ pc = "copy"
    /\ LET fn == filepaths[idx]
           src == SourceEntry(fn)
           next == IF idx < Len(filepaths) THEN "copy" ELSE "cleanup"
       IN
       \E o \in FileOutcomes :
          IF o # "ok" THEN Raises(o) /\ UNCHANGED <<out, idx>>
          ELSE IF src.kind = "link"
          THEN IF SymlinkExists(out, fn.name)
               THEN Raises("FileExistsError") /\ UNCHANGED <<out, idx>>
               ELSE /\ out' = Symlinked(out, src.target, fn.name)
                    /\ idx' = idx + 1 /\ pc' = next /\ err' = err
          ELSE IF WrittenName(out, fn.name, {}) = <<>>
               THEN Raises("OSError") /\ UNCHANGED <<out, idx>>
               ELSE /\ out' = Copied(out, BytesAt(fn), fn.name)
                    /\ idx' = idx + 1 /\ pc' = next /\ err' = err
    /\ UNCHANGED <<plat, patches, embedded, nvt, tree, calls, store, widx,
                   filepaths, config>>
    /\ UNCHANGED <<ctorVars, pathVars>>

\* Leaving "with tempdir()": the temporary directory is removed, which the
\* unpacked files may refuse (lines 319-321).
Cleanup ==
    /\ pc = "cleanup"
    /\ \E o \in {"ok", "PermissionError"} :
          IF o # "ok" THEN Raises(o) ELSE pc' = "dump" /\ err' = err
    /\ UNCHANGED <<plat, patches, embedded, nvt, tree, out, calls, store, widx,
                   filepaths, idx, config>>
    /\ UNCHANGED <<ctorVars, pathVars>>

\* main, line 413: extractor.dump_config()
DumpConfig ==
    /\ pc = "dump"
    /\ config' = TRUE
    /\ pc' = "done"
    /\ UNCHANGED <<plat, patches, embedded, nvt, tree, out, calls, err, store,
                   widx, filepaths, idx>>
    /\ UNCHANGED <<ctorVars, pathVars>>

Next ==
    \/ LinuxRunBlob
    \/ LinuxRunEmbedded
    \/ WindowsUnpack
    \/ RunPatch
    \/ WindowsPrepare
    \/ WindowsFlattenDir
    \/ WindowsMergeDir
    \/ Resolve
    \/ CopyOne
    \/ Cleanup
    \/ DumpConfig

----------------------------------------------------------------------------
(* The runs considered *)

MaxPatches == 2
MaxLibEntries == 2
MaxDirs == 2

PatchNames == {"p1", "p2", "p3"}

\* self.patches: lists of distinct patch files.
PatchLists ==
    {ps \in UNION {[1..k -> PatchNames] : k \in 0..MaxPatches} :
        \A i, j \in DOMAIN ps : i # j => ps[i] # ps[j]}

File(name) == [name |-> name, kind |-> "file", target |-> <<>>]
Link(name, target) == [name |-> name, kind |-> "link", target |-> target]
Dir(name) == [name |-> name, kind |-> "dir", target |-> <<>>]

\* lib64: the entries of library foo, then nvToolsExt and cudadevrt.
FooNames == {SoName(foo, <<>>), SoName(foo, <<1>>), SoName(foo, <<2>>)}

FooEntries ==
    {File(n) : n \in FooNames} \cup {Dir(n) : n \in FooNames}
    \cup {Link(nt[1], nt[2]) : nt \in {x \in FooNames \X FooNames : x[1] # x[2]}}

FooListings ==
    {l \in UNION {[1..k -> FooEntries] : k \in 0..MaxLibEntries} :
        \A i, j \in DOMAIN l : i # j => l[i].name # l[j].name}

LinuxTree(fooPart) ==
    [lib64 |-> fooPart \o <<File(SoName(nvToolsExt, <<1>>)),
                            File(<<"l", "i", "b">> \o cudadevrt \o <<".", "a">>)>>,
     nvvm |-> <<Link(SoName(nvvm, <<>>), SoName(nvvm, <<3>>)),
                File(SoName(nvvm, <<3>>))>>,
     libdevice |-> <<File(LibdeviceName)>>,
     walk |-> <<>>]

BaseLinuxTree ==
    LinuxTree(<<Link(SoName(foo, <<>>), SoName(foo, <<1>>)),
                File(SoName(foo, <<1>>))>>)

\* The unpacked Windows tree: up to MaxDirs directories that vary, then the
\* bundled application and the directory holding the remaining libraries.
FooDll == DllName(foo, 0)
NvtDll == nvToolsExt \o <<"6", "4", "_", "1", ".", "d", "l", "l">>

DirPath(i, sub) == <<"d">> \o Decimal(i) \o <<"/">> \o sub

SubDirs == {<<"b", "i", "n">>, <<"j", "r", "e">>}

VaryingWalks ==
    UNION {{[i \in 1..k |-> [path |-> DirPath(i, w[i][1]), files |-> w[i][2]]] :
               w \in [1..k -> SubDirs \X SUBSET {FooDll, NvtDll}]} :
           k \in 0..MaxDirs}

FixedDirs ==
    <<[path |-> <<"G", "F", "E", "x", "p", "e", "r", "i", "e", "n", "c", "e">>,
       files |-> {FooDll, <<"g", "f", "e", ".", "d", "l", "l">>}],
      [path |-> <<"n", "v", "v", "m">>,
       files |-> {FooDll,
                  cudadevrt \o <<".", "l", "i", "b">>,
                  nvvm \o <<"6", "4", "_", "3", "3", "_", "0", ".", "d", "l", "l">>,
                  LibdeviceName,
                  <<"e", "u", "l", "a", ".", "t", "x", "t">>}]>>

WindowsTree(varying) ==
    [lib64 |-> <<>>, nvvm |-> <<>>, libdevice |-> <<>>,
     walk |-> varying \o FixedDirs]

BaseWindowsTree ==
    WindowsTree(<<[path |-> DirPath(1, <<"b", "i", "n">>),
                   files |-> {FooDll, NvtDll}]>>)

\* os.environ.get('NVTOOLSEXT_INSTALL_PATH', self.nvtoolsextpath)
NvtUnset == [state |-> "unset", walk |-> <<>>]
NvtChoices ==
    {NvtUnset, [state |-> "notdir", walk |-> <<>>]}
    \cup {[state |-> "dir",
           walk |-> <<[path |-> <<"n", "v", "t", "/">> \o sub, files |-> fs]>>] :
             sub \in SubDirs, fs \in {{NvtDll}, {FooDll, NvtDll}}}

\* What the output directory holds before the run: nothing, or one entry
\* under the name of a library file.
OldBytes == [dir |-> <<"o", "l", "d">>, name |-> <<>>]

OutChoices(p) ==
    LET names == IF p = "linux" THEN {SoName(foo, <<>>), SoName(foo, <<1>>)}
                 ELSE {FooDll}
        other == IF p = "linux" THEN SoName(foo, <<2>>)
                 ELSE <<"o", "l", "d", ".", "d", "l", "l">>
    IN  {EmptyDir}
        \cup {[x \in {n} |-> FileEntry(OldBytes)] : n \in names}
        \cup {[x \in {n} |-> LinkEntry(other)] : n \in names}

RunStart ==
    /\ pc = "extract" /\ calls = <<>> /\ err = "none" /\ store = EmptyDir
    /\ widx = 0 /\ filepaths = <<>> /\ idx = 0 /\ config = FALSE
    /\ version = <<>> /\ platform = plat /\ ctor = NoCtor
    /\ libraries = <<>> /\ listing = <<>> /\ template = <<>>
    /\ symlinks = FALSE /\ result = Pending

\* Runs that vary the configured patches and the embedded blob.
InitPatches ==
    /\ plat \in {"linux", "windows"}
    /\ patches \in PatchLists
    /\ embedded \in (IF plat = "linux" THEN {"none", "embedded_blob"} ELSE {"none"})
    /\ nvt = NvtUnset
    /\ tree = IF plat = "linux" THEN BaseLinuxTree ELSE BaseWindowsTree
    /\ out = EmptyDir
    /\ RunStart

\* Runs that vary the unpacked files, the NvToolsExt path and the output
\* directory, with the patches of CONFIG (none).
InitFiles ==
    /\ plat \in {"linux", "windows"}
    /\ patches = <<>>
    /\ embedded = "none"
    /\ nvt \in (IF plat = "linux" THEN {NvtUnset} ELSE NvtChoices)
    /\ tree \in (IF plat = "linux" THEN {LinuxTree(l) : l \in FooListings}
                 ELSE {WindowsTree(w) : w \in VaryingWalks})
    /\ out \in OutChoices(plat)
    /\ RunStart

Init == InitPatches \/ InitFiles

Spec == Init /\ [][Next]_vars

----------------------------------------------------------------------------
(* Properties of a run *)

\* copy_files has copied or linked every resolved path.
CopyComplete == filepaths # <<>> /\ idx = Len(filepaths) + 1

\* C6 (as claimed): once the copy/link stage has gone through every resolved
\* path, the output directory holds, for a symbolic link, a link of the same
\* base name and target, and for any other path a regular file of the same
\* base name and bytes.
C6_CopyStage ==
    CopyComplete =>
        \A i \in DOMAIN filepaths :
            LET fn == filepaths[i]
                src == SourceEntry(fn)
            IN  /\ fn.name \in DOMAIN out
                /\ IF src.kind = "link"
                   THEN /\ out[fn.name].kind = "link"
                        /\ out[fn.name].target = src.target
                   ELSE /\ out[fn.name].kind = "file"
                        /\ out[fn.name].bytes = BytesAt(fn)

\* The invocations the configuration asks for, in order.
ExpectedCalls ==
    LET installer ==
            IF plat = "windows" THEN <<[tool |-> "7za x", file |-> Blob]>>
            ELSE IF embedded = "none" THEN <<[tool |-> "install", file |-> Blob]>>
            ELSE <<[tool |-> "extract", file |-> Blob],
                   [tool |-> "embedded", file |-> embedded]>>
    IN  installer \o
        [i \in DOMAIN patches |->
            [tool |-> IF plat = "windows" THEN "7za x -aoa" ELSE "patch",
             file |-> patches[i]]]

\* C7: on both platforms the external tools are invoked in the order
\* installer (with its embedded blob, when one is configured), then the
\* patches in list order, each once; an invocation follows only successful
\* ones; and nothing is resolved or copied before every one of them has
\* returned successfully.
C7_CallOrder ==
    /\ Len(calls) <= Len(ExpectedCalls)
    /\ calls # <<>> => calls[1].file = Blob
    /\ \A i \in DOMAIN calls :
          /\ calls[i].tool = ExpectedCalls[i].tool
          /\ calls[i].file = ExpectedCalls[i].file
          /\ i < Len(calls) => calls[i].outcome = "ok"
    /\ (pc \in {"resolve", "copy", "cleanup"} \/ filepaths # <<>> \/ idx > 0) =>
          /\ Len(calls) = Len(ExpectedCalls)
          /\ \A i \in DOMAIN calls : calls[i].outcome = "ok"

C7_Witness ==
    /\ plat = "linux" /\ Len(patches) = MaxPatches /\ embedded = "none"
    /\ Len(calls) = 1 + MaxPatches
    /\ CopyComplete /\ pc = "done"

\* The directories the staging loops visit, in order: the unpacked tree,
\* then the NvToolsExt install path.
Visited == tree.walk \o nvt.walk

NamesJre(path) ==
    \/ Contains(path, <<"j", "r", "e">>)
    \/ Contains(path, <<"G", "F", "E", "x", "p", "e", "r", "i", "e", "n", "c", "e">>)

StagedExt(filename, fromTree) ==
    \/ HasExt(filename, <<"d", "l", "l">>)
    \/ fromTree /\ HasExt(filename, <<"l", "i", "b">>)
    \/ fromTree /\ HasExt(filename, <<"b", "c">>)

\* The i-th visited directory offers filename to the staging directory.
Offers(i, filename) ==
    /\ filename \in Visited[i].files
    /\ StagedExt(filename, i <= Len(tree.walk))
    /\ i <= Len(tree.walk) => ~NamesJre(Visited[i].path)

\* Every staged file is the first one offered under its name.
FirstWins ==
    \A n \in DOMAIN store :
        \E i \in DOMAIN Visited :
            /\ Offers(i, n)
            /\ \A j \in 1..(i - 1) : ~Offers(j, n)
            /\ store[n] = [dir |-> Visited[i].path, name |-> n]

\* C8 (as claimed): first occurrence wins in the flatten and NvToolsExt-merge
\* steps, and no staged file comes from a directory whose path contains
\* 'jre' or 'GFExperience'.
C8_FirstWinsNoJre ==
    /\ FirstWins
    /\ \A n \in DOMAIN store : ~NamesJre(store[n].dir)

\* C8 (amended): first occurrence wins in the flatten and NvToolsExt-merge
\* steps, and no staged file comes from a directory of the unpacked tree
\* whose path contains 'jre' or 'GFExperience'.
C8_FirstWins ==
    /\ FirstWins
    /\ \A n \in DOMAIN store :
          \A i \in DOMAIN tree.walk :
              store[n].dir = tree.walk[i].path => ~NamesJre(store[n].dir)

\* The library is staged from the first directory although a later
\* directory of the tree and the NvToolsExt path hold a file of that name.
C8_Witness ==
    /\ pc = "resolve" /\ plat = "windows" /\ nvt.state = "dir"
    /\ Len(tree.walk) >= 3
    /\ FooDll \in tree.walk[1].files /\ ~NamesJre(tree.walk[1].path)
    /\ FooDll \in tree.walk[2].files /\ ~NamesJre(tree.walk[2].path)
    /\ FooDll \in nvt.walk[1].files
    /\ FooDll \in DOMAIN store
    /\ store[FooDll].dir = tree.walk[1].path

\* C9 (as claimed): an external tool that does not return zero, or any error
\* in extraction, resolution or copying, ends the run in failure, and the
\* configuration file is written only after every library was copied.
C9_ErrorsFatal ==
    /\ config => CopyComplete
    /\ \A i \in DOMAIN calls :
          calls[i].outcome # "ok" => (pc = "failed" /\ err # "none" /\ ~config)

====
